---- MODULE Spec2Model ----
(***************************************************************************)
(* Model of utils/geojson-to-polygons.py: a GeoJSON feature collection is   *)
(* parsed into labelled points and simple polygons, a combined bounding box *)
(* is folded over all coordinates, a per-axis shift and scale are derived   *)
(* and every point and polygon vertex is printed transformed.               *)
(*                                                                          *)
(* JSON integers are Python ints (unbounded, exact).  MAP_SIZE and MARGIN   *)
(* are Python floats, so shift, scale and every printed coordinate are IEEE *)
(* 754 binary64 values computed with round-to-nearest-even.  The model      *)
(* carries these values exactly: a float is a sign, an odd natural mantissa *)
(* and a binary exponent, and every arithmetic operator rounds its exact    *)
(* result to 53 significant bits, as the hardware does.  (Exponent overflow *)
(* and subnormals are out of reach of the inputs considered.)               *)
(***************************************************************************)
EXTENDS Integers, Sequences, FiniteSets

(***************************************************************************)
(* Natural numbers of arbitrary size: little-endian sequences of limbs in   *)
(* base 2^15 without high zero limbs; << >> is zero.                        *)
(***************************************************************************)
Base == 2^15

RECURSIVE BTrim(_)
BTrim(a) ==
    IF a = << >> THEN << >>
    ELSE IF a[Len(a)] = 0 THEN BTrim(SubSeq(a, 1, Len(a) - 1))
    ELSE a

RECURSIVE BFromNat(_)
BFromNat(n) == IF n = 0 THEN << >> ELSE <<n % Base>> \o BFromNat(n \div Base)

RECURSIVE BAddC(_, _, _)
BAddC(a, b, c) ==
    IF a = << >> /\ b = << >> THEN (IF c = 0 THEN << >> ELSE <<c>>)
    ELSE LET x == IF a = << >> THEN 0 ELSE Head(a)
             y == IF b = << >> THEN 0 ELSE Head(b)
             s == x + y + c
         IN  <<s % Base>> \o BAddC(IF a = << >> THEN << >> ELSE Tail(a),
                                   IF b = << >> THEN << >> ELSE Tail(b),
                                   s \div Base)

BAdd(a, b) == BAddC(a, b, 0)

\* a - b - c for a >= b + c (limbwise with borrow)
RECURSIVE BSubC(_, _, _)
BSubC(a, b, c) ==
    IF a = << >> THEN << >>
    ELSE LET y == IF b = << >> THEN 0 ELSE Head(b)
             d == Head(a) - y - c
         IN  <<d % Base>> \o BSubC(Tail(a),
                                   IF b = << >> THEN << >> ELSE Tail(b),
                                   IF d < 0 THEN 1 ELSE 0)

BSub(a, b) == BTrim(BSubC(a, b, 0))

\* -1, 0, 1 as a < b, a = b, a > b
RECURSIVE BCmp(_, _)
BCmp(a, b) ==
    IF Len(a) # Len(b) THEN (IF Len(a) < Len(b) THEN -1 ELSE 1)
    ELSE IF a = << >> THEN 0
    ELSE IF a[Len(a)] # b[Len(b)] THEN (IF a[Len(a)] < b[Len(b)] THEN -1 ELSE 1)
    ELSE BCmp(SubSeq(a, 1, Len(a) - 1), SubSeq(b, 1, Len(b) - 1))

\* a * d + c for one limb d
RECURSIVE BMulSmallC(_, _, _)
BMulSmallC(a, d, c) ==
    IF a = << >> THEN (IF c = 0 THEN << >> ELSE <<c>>)
    ELSE LET p == Head(a) * d + c
         IN  <<p % Base>> \o BMulSmallC(Tail(a), d, p \div Base)

BMulSmall(a, d) == BTrim(BMulSmallC(a, d, 0))

RECURSIVE BMul(_, _)
BMul(a, b) ==
    IF a = << >> \/ b = << >> THEN << >>
    ELSE BAdd(BMulSmall(a, Head(b)),
              LET r == BMul(a, Tail(b)) IN IF r = << >> THEN << >> ELSE <<0>> \o r)

\* quotient of a by one limb d > 0, high limb first; r is the running remainder
RECURSIVE BDivSmallR(_, _, _)
BDivSmallR(a, d, r) ==
    IF a = << >> THEN << >>
    ELSE LET cur == r * Base + a[Len(a)]
         IN  BDivSmallR(SubSeq(a, 1, Len(a) - 1), d, cur % d) \o <<cur \div d>>

BDivSmall(a, d) == BTrim(BDivSmallR(a, d, 0))

RECURSIVE BitLenNat(_)
BitLenNat(n) == IF n = 0 THEN 0 ELSE 1 + BitLenNat(n \div 2)

BBitLen(a) == IF a = << >> THEN 0 ELSE 15 * (Len(a) - 1) + BitLenNat(a[Len(a)])

BIsOdd(a) == a # << >> /\ a[1] % 2 = 1

\* a * 2^n
BShl(a, n) ==
    IF a = << >> THEN << >>
    ELSE [k \in 1..(n \div 15) |-> 0] \o BMulSmall(a, 2^(n % 15))

\* a \div 2^n
BShr(a, n) ==
    IF n \div 15 >= Len(a) THEN << >>
    ELSE BDivSmall(SubSeq(a, n \div 15 + 1, Len(a)), 2^(n % 15))

\* the largest d < Base with b * d <= r, for r < b * Base, settled one bit
\* at a time from bit j down; acc holds the bits settled so far
RECURSIVE BDigit(_, _, _, _)
BDigit(r, b, j, acc) ==
    IF j < 0 THEN acc
    ELSE IF BCmp(BMulSmall(b, acc + 2^j), r) <= 0
         THEN BDigit(r, b, j - 1, acc + 2^j)
         ELSE BDigit(r, b, j - 1, acc)

\* <<quotient, remainder>> by b # 0 of the number made of the limbs of a from
\* index k up: schoolbook long division, one limb brought down per step
RECURSIVE BDivModR(_, _, _)
BDivModR(a, b, k) ==
    IF k > Len(a) THEN << << >>, << >> >>
    ELSE LET p  == BDivModR(a, b, k + 1)
             r2 == BTrim(<<a[k]>> \o p[2])
             d  == BDigit(r2, b, 14, 0)
         IN  <<BTrim(<<d>> \o p[1]), BSub(r2, BMulSmall(b, d))>>

BDivMod(a, b) == BDivModR(a, b, 1)

(***************************************************************************)
(* Python floats (IEEE 754 binary64).  A value is (-1)^sign * m * 2^e with  *)
(* m an odd natural of at most Precision bits, or m = << >> for zero, so    *)
(* equal values are equal records.                                          *)
(***************************************************************************)
Precision == 53

\* the canonical record of (-1)^sign * m * 2^e: factors of two move to e
RECURSIVE Canon(_, _, _)
Canon(sign, m, e) ==
    IF m = << >> THEN [sign |-> sign, m |-> << >>, e |-> 0]
    ELSE IF m[1] = 0 THEN Canon(sign, Tail(m), e + 15)
    ELSE IF m[1] % 2 = 0 THEN Canon(sign, BDivSmall(m, 2), e + 1)
    ELSE [sign |-> sign, m |-> m, e |-> e]

\* round (-1)^sign * m * 2^e to Precision bits, to nearest, ties to even
Round(sign, m, e) ==
    LET n == BBitLen(m) - Precision
    IN  IF n <= 0 THEN Canon(sign, m, e)
        ELSE LET q   == BShr(m, n)
                 rem == BSub(m, BShl(q, n))
                 c   == BCmp(rem, BShl(<<1>>, n - 1))
                 up  == c > 0 \/ (c = 0 /\ BIsOdd(q))
             IN  Canon(sign, IF up THEN BAdd(q, <<1>>) ELSE q, e + n)

\* float(n) of a Python int
FromInt(n) == Round(IF n < 0 THEN 1 ELSE 0, BFromNat(IF n < 0 THEN -n ELSE n), 0)

FIsZero(a) == a.m = << >>

FNeg(a) == [a EXCEPT !.sign = 1 - a.sign]

FAbs(a) == [a EXCEPT !.sign = 0]

\* a + b
FAdd(a, b) ==
    LET e  == IF a.e < b.e THEN a.e ELSE b.e
        ma == BShl(a.m, a.e - e)
        mb == BShl(b.m, b.e - e)
        c  == BCmp(ma, mb)
    IN  IF a.sign = b.sign THEN Round(a.sign, BAdd(ma, mb), e)
        ELSE IF c = 0 THEN Canon(0, << >>, 0)
        ELSE IF c > 0 THEN Round(a.sign, BSub(ma, mb), e)
        ELSE Round(b.sign, BSub(mb, ma), e)

\* a - b
FSub(a, b) == FAdd(a, FNeg(b))

\* a * b
FMul(a, b) == Round((a.sign + b.sign) % 2, BMul(a.m, b.m), a.e + b.e)

\* a / b for b # 0: the quotient is taken to at least Precision + 2 bits and
\* a sticky bit records a non-zero remainder, then the result is rounded once
FDiv(a, b) ==
    LET d   == Precision + 2 + BBitLen(b.m) - BBitLen(a.m)
        s   == IF d < 0 THEN 0 ELSE d
        qr  == BDivMod(BShl(a.m, s), b.m)
        m2  == BAdd(BShl(qr[1], 1), IF qr[2] = << >> THEN << >> ELSE <<1>>)
    IN  Round((a.sign + b.sign) % 2, m2, a.e - b.e - s - 1)

\* -1, 0, 1 as a < b, a = b, a > b
FCmp(a, b) ==
    LET e  == IF a.e < b.e THEN a.e ELSE b.e
        ma == BShl(a.m, a.e - e)
        mb == BShl(b.m, b.e - e)
        c  == BCmp(ma, mb)
    IN  IF FIsZero(a) /\ FIsZero(b) THEN 0
        ELSE IF a.sign # b.sign THEN (IF a.sign = 1 THEN -1 ELSE 1)
        ELSE IF a.sign = 0 THEN c ELSE -c

FLe(a, b) == FCmp(a, b) <= 0

(***************************************************************************)
(* The program: main() of geojson-to-polygons.py.                           *)
(***************************************************************************)
MAP_SIZE == 1000
MARGIN == 50

\* longest feature list read from standard input
MaxFeatures == 4

PointFeature(c, p) ==
    [geometry |-> [type |-> "Point", coordinates |-> c], properties |-> p]

PolygonFeature(c) ==
    [geometry |-> [type |-> "Polygon", coordinates |-> c],
     properties |-> [id |-> "A"]]

OtherFeature(t) ==
    [geometry |-> [type |-> t, coordinates |-> <<<<0, 0>>, <<20, 20>>>>],
     properties |-> [id |-> "A"]]

Triangle == <<<<0, 0>>, <<20, 0>>, <<20, 20>>, <<0, 0>>>>
Square == <<<<0, 0>>, <<20, 0>>, <<20, 20>>, <<0, 20>>, <<0, 0>>>>

\* Point features: two labelled positions; coordinates with one number too
\* few and one too many; properties without the key "name"
PointFeatures ==
    {PointFeature(<<10, 10>>, [name |-> "A"]),
     PointFeature(<<51, 10>>, [name |-> "B"]),
     PointFeature(<<10>>, [name |-> "A"]),
     PointFeature(<<10, 10, 5>>, [name |-> "A"]),
     PointFeature(<<10, 10>>, [id |-> "A"])}

\* Polygon features: a triangle and a square; no ring; two rings; a ring of
\* three coordinates; a ring that does not return to its start
PolygonFeatures ==
    {PolygonFeature(<<Triangle>>),
     PolygonFeature(<<Square>>),
     PolygonFeature(<< >>),
     PolygonFeature(<<Triangle, Square>>),
     PolygonFeature(<<<<<<0, 0>>, <<20, 0>>, <<0, 0>>>>>>),
     PolygonFeature(<<<<<<0, 0>>, <<20, 0>>, <<20, 20>>, <<0, 20>>>>>>)}

Features ==
    PointFeatures \cup PolygonFeatures
    \cup {OtherFeature("LineString"), OtherFeature("MultiPoint")}

\* the documents json.load can return: feature lists of bounded length
Inputs == UNION {[1..n -> Features] : n \in 0..MaxFeatures}

\* a local variable that has not been assigned yet
None == "None"

VARIABLES
    geojson,     \* the 'features' list of the parsed document
    pc,          \* position in main: parse, seed, scan_points, scan_polygons,
                 \* transform, emit_points, emit_open, emit_vertex, emit_close,
                 \* done (returned), failed (an exception left main)
    i, j,        \* positions of the running for loops (outer, inner)
    points, polygons,
    x_min, x_max, y_min, y_max,
    x_shift, x_scale, y_shift, y_scale,
    stdout,      \* the lines printed so far
    exc          \* the exception that ended the run, or None

vars == <<geojson, pc, i, j, points, polygons, x_min, x_max, y_min, y_max,
          x_shift, x_scale, y_shift, y_scale, stdout, exc>>

box == <<x_min, x_max, y_min, y_max>>
transform == <<x_shift, x_scale, y_shift, y_scale>>

\* an exception: its Python type, the line that raised it and its arguments
Raise(type, line, arg) == [type |-> type, line |-> line, arg |-> arg]

\* Python's min and max of two numbers
min(a, b) == IF b < a THEN b ELSE a
max(a, b) == IF b > a THEN b ELSE a

\* printed lines; a float is printed by repr, which reads back as the same
\* float, so a line is carried as its fields
PointLine(name, x, y) == [kind |-> "point", name |-> name, x |-> x, y |-> y]
OpenLine == [kind |-> "open"]
VertexLine(x, y) == [kind |-> "vertex", x |-> x, y |-> y]
CloseLine == [kind |-> "close"]

Init ==
    /\ geojson \in Inputs
    /\ pc = IF geojson = << >> THEN "seed" ELSE "parse"
    /\ i = 1
    /\ j = 1
    /\ points = << >>
    /\ polygons = << >>
    /\ x_min = None /\ x_max = None /\ y_min = None /\ y_max = None
    /\ x_shift = None /\ x_scale = None /\ y_shift = None /\ y_scale = None
    /\ stdout = << >>
    /\ exc = None

\* the exception leaves main: the run ends with a traceback
Fail(e) == pc' = "failed" /\ exc' = e

\* the for loop over the features moves on, or ends and line 34 is next
NextFeature ==
    /\ pc' = IF i = Len(geojson) THEN "seed" ELSE "parse"
    /\ i' = IF i = Len(geojson) THEN 1 ELSE i + 1

\* list.insert(0, item) in place of list.append(item)
prepend(list, item) == <<item>> \o list

\* list.append
append(list, item) == Append(list, item)

\* line 21: a position has two numbers
TwoNumbers(coordinates) == Len(coordinates) = 2

\* line 25: no inner rings
NoInnerRings(coordinates) == Len(coordinates) = 1

\* the ring test of line 27 counting vertices instead of coordinates
AtLeastThreeCoordinates(outer_ring) == Len(outer_ring) >= 3

\* line 27: at least a triangle
AtLeastTriangle(outer_ring) == Len(outer_ring) >= 4

\* line 28: the ring is closed
Closed(outer_ring) == outer_ring[1] = outer_ring[Len(outer_ring)]

\* line 29 without the slice [:-1]: the closing coordinate is kept
VerticesWithClosing(outer_ring) ==
    [k \in 1..Len(outer_ring) |-> <<outer_ring[k][1], outer_ring[k][2]>>]

\* line 29: the vertices of the ring without its closing coordinate
Vertices(outer_ring) ==
    [k \in 1..(Len(outer_ring) - 1) |-> <<outer_ring[k][1], outer_ring[k][2]>>]

\* line 32 without the f prefix: the placeholder is not filled in
UnexpectedTypeLiteral(geometry_type) ==
    <<"Unexpected geometry type: ", "{geometry_type}">>

\* line 32: the message of the exception for a geometry type
UnexpectedType(geometry_type) == <<"Unexpected geometry type: ", geometry_type>>

\* lines 15-23 with the print of line 58 moved into the parsing loop
ParsePointEcho ==
    /\ pc = "parse"
    /\ geojson[i].geometry.type = "Point"
    /\ LET feature     == geojson[i]
           coordinates == feature.geometry.coordinates
       IN  IF ~TwoNumbers(coordinates)
           THEN /\ Fail(Raise("AssertionError", 21, << >>))
                /\ UNCHANGED <<i, points, stdout>>
           ELSE IF "name" \notin DOMAIN feature.properties
           THEN /\ Fail(Raise("KeyError", 22, <<"name">>))
                /\ UNCHANGED <<i, points, stdout>>
           ELSE /\ points' = append(points, <<coordinates[1], coordinates[2],
                                              feature.properties.name>>)
                /\ stdout' = Append(stdout,
                                    PointLine(feature.properties.name,
                                              FromInt(coordinates[1]),
                                              FromInt(coordinates[2])))
                /\ NextFeature
                /\ UNCHANGED exc
    /\ UNCHANGED <<geojson, j, polygons, box, transform>>

\* lines 15-23: a Point feature
ParsePoint ==
    /\ pc = "parse"
    /\ geojson[i].geometry.type = "Point"
    /\ LET feature     == geojson[i]
           coordinates == feature.geometry.coordinates
       IN  IF ~TwoNumbers(coordinates)
           THEN /\ Fail(Raise("AssertionError", 21, << >>))
                /\ UNCHANGED <<i, points>>
           ELSE IF "name" \notin DOMAIN feature.properties
           THEN /\ Fail(Raise("KeyError", 22, <<"name">>))
                /\ UNCHANGED <<i, points>>
           ELSE /\ points' = append(points, <<coordinates[1], coordinates[2],
                                              feature.properties.name>>)
                /\ NextFeature
                /\ UNCHANGED exc
    /\ UNCHANGED <<geojson, j, polygons, box, transform, stdout>>

\* lines 15-18, 24-30: a Polygon feature
ParsePolygon ==
    /\ pc = "parse"
    /\ geojson[i].geometry.type = "Polygon"
    /\ LET coordinates == geojson[i].geometry.coordinates
           outer_ring  == coordinates[1]
           vertices    == Vertices(outer_ring)
       IN  IF ~NoInnerRings(coordinates)
           THEN /\ Fail(Raise("AssertionError", 25, << >>))
                /\ UNCHANGED <<i, polygons>>
           ELSE IF ~AtLeastTriangle(outer_ring)
           THEN /\ Fail(Raise("AssertionError", 27, << >>))
                /\ UNCHANGED <<i, polygons>>
           ELSE IF ~Closed(outer_ring)
           THEN /\ Fail(Raise("AssertionError", 28, << >>))
                /\ UNCHANGED <<i, polygons>>
           ELSE /\ polygons' = append(polygons, vertices)
                /\ NextFeature
                /\ UNCHANGED exc
    /\ UNCHANGED <<geojson, j, points, box, transform, stdout>>

\* lines 15-18, 31-32: any other geometry type
ParseOther ==
    /\ pc = "parse"
    /\ geojson[i].geometry.type \notin {"Point", "Polygon"}
    /\ Fail(Raise("Exception", 32, UnexpectedType(geojson[i].geometry.type)))
    /\ UNCHANGED <<geojson, i, j, points, polygons, box, transform, stdout>>

\* lines 34-35: the box starts as the first point
SeedBox ==
    /\ pc = "seed"
    /\ IF points = << >>
       THEN /\ Fail(Raise("IndexError", 34, <<"list index out of range">>))
            /\ UNCHANGED <<i, box>>
       ELSE /\ x_min' = points[1][1]
            /\ y_min' = points[1][2]
            /\ x_max' = points[1][1]
            /\ y_max' = points[1][2]
            /\ pc' = "scan_points"
            /\ i' = 1
            /\ UNCHANGED exc
    /\ UNCHANGED <<geojson, j, points, polygons, transform, stdout>>

\* lines 37-41: one point is folded into the box
ScanPoint ==
    /\ pc = "scan_points"
    /\ LET x == points[i][1]
           y == points[i][2]
       IN  /\ x_min' = min(x_min, x)
           /\ x_max' = max(x_max, x)
           /\ y_min' = min(y_min, y)
           /\ y_max' = max(y_max, y)
    /\ i' = IF i = Len(points) THEN 1 ELSE i + 1
    /\ pc' = IF i < Len(points) THEN "scan_points"
             ELSE IF polygons = << >> THEN "transform" ELSE "scan_polygons"
    /\ j' = 1
    /\ UNCHANGED <<geojson, points, polygons, transform, stdout, exc>>

\* lines 43-48: one polygon vertex is folded into the box
ScanVertex ==
    /\ pc = "scan_polygons"
    /\ LET x == polygons[i][j][1]
           y == polygons[i][j][2]
       IN  /\ x_min' = min(x_min, x)
           /\ x_max' = max(x_max, x)
           /\ y_min' = min(y_min, y)
           /\ y_max' = max(y_max, y)
    /\ IF j < Len(polygons[i])
       THEN /\ j' = j + 1
            /\ UNCHANGED <<i, pc>>
       ELSE /\ j' = 1
            /\ i' = IF i = Len(polygons) THEN 1 ELSE i + 1
            /\ pc' = IF i = Len(polygons) THEN "transform" ELSE "scan_polygons"
    /\ UNCHANGED <<geojson, points, polygons, transform, stdout, exc>>

\* line 50 without the division by two
ShiftNotHalved(lo, hi) == FromInt(hi + lo)

\* (x_max + x_min) / 2. on one axis
Shift(lo, hi) == FDiv(FromInt(hi + lo), FromInt(2))

\* line 51 without the margin
ScaleNoMargin(lo, hi) == FDiv(FromInt(MAP_SIZE), FromInt(hi - lo))

\* (MAP_SIZE - MARGIN) / (x_max - x_min) on one axis, for x_max # x_min
Scale(lo, hi) ==
    FDiv(FSub(FromInt(MAP_SIZE), FromInt(MARGIN)), FromInt(hi - lo))

\* x_scale * (x - x_shift)
Apply(scale, shift, x) == FMul(scale, FSub(FromInt(x), shift))

\* lines 50-53: shift and scale per axis; a float division by a zero range
\* raises ZeroDivisionError
BuildTransform ==
    /\ pc = "transform"
    /\ x_shift' = Shift(x_min, x_max)
    /\ IF x_max - x_min = 0
       THEN /\ Fail(Raise("ZeroDivisionError", 51, <<"float division by zero">>))
            /\ UNCHANGED <<x_scale, y_shift, y_scale>>
       ELSE /\ x_scale' = Scale(x_min, x_max)
            /\ y_shift' = Shift(y_min, y_max)
            /\ IF y_max - y_min = 0
               THEN /\ Fail(Raise("ZeroDivisionError", 53, <<"float division by zero">>))
                    /\ UNCHANGED y_scale
               ELSE /\ y_scale' = Scale(y_min, y_max)
                    /\ pc' = "emit_points"
                    /\ UNCHANGED exc
    /\ UNCHANGED <<geojson, i, j, points, polygons, box, stdout>>

\* line 61 left out for the first polygon: its vertices follow the points
AfterPointsNoOpen == IF polygons = << >> THEN "done" ELSE "emit_vertex"

\* what follows the point loop: the polygon loop, or the end of main
AfterPoints == IF polygons = << >> THEN "done" ELSE "emit_open"

\* lines 55-58: one point is printed
EmitPoint ==
    /\ pc = "emit_points"
    /\ stdout' = Append(stdout,
                        PointLine(points[i][3],
                                  Apply(x_scale, x_shift, points[i][1]),
                                  Apply(y_scale, y_shift, points[i][2])))
    /\ i' = IF i = Len(points) THEN 1 ELSE i + 1
    /\ pc' = IF i < Len(points) THEN "emit_points" ELSE AfterPoints
    /\ UNCHANGED <<geojson, j, points, polygons, box, transform, exc>>

\* lines 60-61: the opening line of a polygon
EmitOpen ==
    /\ pc = "emit_open"
    /\ stdout' = Append(stdout, OpenLine)
    /\ j' = 1
    /\ pc' = "emit_vertex"
    /\ UNCHANGED <<geojson, i, points, polygons, box, transform, exc>>

\* lines 62-65: one vertex of the polygon is printed
EmitVertex ==
    /\ pc = "emit_vertex"
    /\ stdout' = Append(stdout,
                        VertexLine(Apply(x_scale, x_shift, polygons[i][j][1]),
                                   Apply(y_scale, y_shift, polygons[i][j][2])))
    /\ j' = IF j < Len(polygons[i]) THEN j + 1 ELSE 1
    /\ pc' = IF j < Len(polygons[i]) THEN "emit_vertex" ELSE "emit_close"
    /\ UNCHANGED <<geojson, i, points, polygons, box, transform, exc>>

\* line 66: the closing line of a polygon; the next polygon, or main returns
EmitClose ==
    /\ pc = "emit_close"
    /\ stdout' = Append(stdout, CloseLine)
    /\ i' = IF i = Len(polygons) THEN 1 ELSE i + 1
    /\ pc' = IF i < Len(polygons) THEN "emit_open" ELSE "done"
    /\ UNCHANGED <<geojson, j, points, polygons, box, transform, exc>>

Next ==
    \/ ParsePoint
    \/ ParsePolygon
    \/ ParseOther
    \/ SeedBox
    \/ ScanPoint
    \/ ScanVertex
    \/ BuildTransform
    \/ EmitPoint
    \/ EmitOpen
    \/ EmitVertex
    \/ EmitClose

Spec == Init /\ [][Next]_vars

(***************************************************************************)
(* What the document says, read off the input alone.                        *)
(***************************************************************************)
IsPoint(f) == f.geometry.type = "Point"
IsPolygon(f) == f.geometry.type = "Polygon"

\* a geometry type outside Point and Polygon
Unsupported(f) == ~IsPoint(f) /\ ~IsPolygon(f)

\* a malformed Point or Polygon feature
Malformed(f) ==
    LET c == f.geometry.coordinates
    IN  \/ IsPoint(f) /\ (Len(c) # 2 \/ "name" \notin DOMAIN f.properties)
        \/ IsPolygon(f) /\ (\/ Len(c) # 1
                            \/ Len(c[1]) < 4
                            \/ c[1][1] # c[1][Len(c[1])])

Offending(k) == Malformed(geojson[k]) \/ Unsupported(geojson[k])
HasOffending == \E k \in 1..Len(geojson) : Offending(k)
FirstOffending ==
    CHOOSE k \in 1..Len(geojson) : Offending(k) /\ \A l \in 1..(k - 1) : ~Offending(l)

\* the parser accepts every feature of the document
AcceptedInput == ~HasOffending

InputPoints == SelectSeq(geojson, IsPoint)
InputPolygons == SelectSeq(geojson, IsPolygon)

\* the ring of the n-th Polygon feature without its closing coordinate
Ring(n) ==
    LET r == InputPolygons[n].geometry.coordinates[1]
    IN  SubSeq(r, 1, Len(r) - 1)

RECURSIVE RingsFrom(_)
RingsFrom(n) == IF n > Len(InputPolygons) THEN << >> ELSE Ring(n) \o RingsFrom(n + 1)

\* every position of an accepted document in the order of the output: the
\* points, then the vertices of the polygons
Positions ==
    [k \in 1..Len(InputPoints) |-> InputPoints[k].geometry.coordinates]
    \o RingsFrom(1)

SetMin(S) == CHOOSE m \in S : \A n \in S : m <= n
SetMax(S) == CHOOSE m \in S : \A n \in S : m >= n
\* the least and greatest coordinate of axis a (1 is x, 2 is y) over all
\* the positions P
AxisMin(P, a) == SetMin({P[k][a] : k \in 1..Len(P)})
AxisMax(P, a) == SetMax({P[k][a] : k \in 1..Len(P)})

\* the bounding box of an accepted document has width and height
NonDegenerate == \A a \in {1, 2} : AxisMin(Positions, a) < AxisMax(Positions, a)

HasCoordinates(line) == line.kind \in {"point", "vertex"}
\* the printed lines that carry coordinates, in order
CoordLines == SelectSeq(stdout, HasCoordinates)
Coord(line, a) == IF a = 1 THEN line.x ELSE line.y

Emitting == pc \in {"emit_points", "emit_open", "emit_vertex", "emit_close", "done"}

\* (1000 - 50) / (hi - lo) * (v - (hi + lo) / 2) in float arithmetic
Normalized(v, lo, hi) ==
    FMul(FDiv(FSub(FromInt(1000), FromInt(50)), FromInt(hi - lo)),
         FSub(FromInt(v), FDiv(FromInt(hi + lo), FromInt(2))))

F(n) == FromInt(n)

\* C1: for an accepted input with a box of non-zero width and height, every
\* printed coordinate of every point and polygon vertex is
\* (1000 - 50) / (max - min) * (v - (max + min) / 2) with min and max taken
\* over all point and vertex coordinates of that axis; the box center is
\* printed as 0, and point A at (10, 10) with ring (0,0),(20,0),(20,20),(0,0)
\* prints A at (0, 0) and the vertices (-475,-475), (475,-475), (475,475).
C1_Transform ==
    pc = "done" =>
        LET P  == Positions
            L  == CoordLines
            lo == <<AxisMin(P, 1), AxisMin(P, 2)>>
            hi == <<AxisMax(P, 1), AxisMax(P, 2)>>
        IN  /\ Len(L) = Len(P)
            /\ \A k \in 1..Len(L) : \A a \in {1, 2} :
                  /\ Coord(L[k], a) = Normalized(P[k][a], lo[a], hi[a])
                  /\ 2 * P[k][a] = lo[a] + hi[a] => Coord(L[k], a) = F(0)
            /\ geojson = <<PointFeature(<<10, 10>>, [name |-> "A"]),
                           PolygonFeature(<<Triangle>>)>>
               => stdout = <<PointLine("A", F(0), F(0)),
                             OpenLine,
                             VertexLine(F(-475), F(-475)),
                             VertexLine(F(475), F(-475)),
                             VertexLine(F(475), F(475)),
                             CloseLine>>

\* the scenario of C1 has run to its end
C1_Witness ==
    /\ pc = "done"
    /\ AcceptedInput /\ NonDegenerate
    /\ geojson = <<PointFeature(<<10, 10>>, [name |-> "A"]),
                   PolygonFeature(<<Triangle>>)>>
    /\ Len(stdout) = 6

\* (1000 - 50) / 2
HalfExtent == FDiv(FSub(F(1000), F(50)), F(2))
\* one unit in the last place of a float between 256 and 512
Ulp == [sign |-> 0, m |-> <<1>>, e |-> -44]

\* C2 as stated: every printed coordinate has absolute value at most 475,
\* and on each axis one printed coordinate is -475 and one is +475.
C2_ExactExtent ==
    pc = "done" =>
        LET L == CoordLines
        IN  \A a \in {1, 2} :
               /\ \A k \in 1..Len(L) : FLe(FAbs(Coord(L[k], a)), HalfExtent)
               /\ \E k \in 1..Len(L) : Coord(L[k], a) = FNeg(HalfExtent)
               /\ \E k \in 1..Len(L) : Coord(L[k], a) = HalfExtent

\* C2, amended: every printed coordinate has absolute value at most
\* 475 + 2^-44, and on each axis the coordinates on the minimum of the box
\* are printed as -E and those on its maximum as +E, for one float E within
\* 2^-44 of 475; each axis has such a coordinate at both ends.
C2_RoundedExtent ==
    pc = "done" =>
        LET P  == Positions
            L  == CoordLines
            lo == <<AxisMin(P, 1), AxisMin(P, 2)>>
            hi == <<AxisMax(P, 1), AxisMax(P, 2)>>
        IN  /\ Len(L) = Len(P)
            /\ \A a \in {1, 2} :
                 /\ \A k \in 1..Len(L) :
                       FLe(FAbs(Coord(L[k], a)), FAdd(HalfExtent, Ulp))
                 /\ \E E \in {FSub(HalfExtent, Ulp), HalfExtent, FAdd(HalfExtent, Ulp)} :
                       /\ \E k \in 1..Len(L) : P[k][a] = lo[a]
                       /\ \E k \in 1..Len(L) : P[k][a] = hi[a]
                       /\ \A k \in 1..Len(L) :
                             /\ P[k][a] = lo[a] => Coord(L[k], a) = FNeg(E)
                             /\ P[k][a] = hi[a] => Coord(L[k], a) = E

\* a finished run in which the maximum of the x axis is printed one unit in
\* the last place above 475 (the x range is 51)
C2_Witness ==
    /\ pc = "done"
    /\ AcceptedInput /\ NonDegenerate
    /\ \E k \in 1..Len(CoordLines) : CoordLines[k].x = FAdd(HalfExtent, Ulp)

\* the exceptions a malformed Point or Polygon feature raises
SchemaErrors == {"AssertionError", "KeyError"}

\* C3: parsing fails with a schema error and the run is aborted when it meets
\* a malformed feature (a Point without exactly two coordinates or without a
\* name, a Polygon without exactly one ring, with a ring of fewer than four
\* coordinates or with a ring whose first and last coordinate differ);
\* a Point or Polygon feature with none of these defects is accepted.
C3_SchemaError ==
    /\ pc = "parse" =>
          /\ \A k \in 1..(i - 1) : ~Offending(k)
          /\ Len(points) + Len(polygons) = i - 1
    /\ pc # "parse" =>
          IF HasOffending
          THEN Malformed(geojson[FirstOffending]) =>
                  /\ pc = "failed"
                  /\ exc.type \in SchemaErrors
                  /\ exc.line \in 20..30
                  /\ i = FirstOffending
                  /\ stdout = << >>
          ELSE /\ Len(points) = Len(InputPoints)
               /\ Len(polygons) = Len(InputPolygons)
               /\ pc = "failed" => exc.type \notin SchemaErrors

\* a ring of three coordinates has ended the run after two accepted features
C3_Witness ==
    /\ pc = "failed"
    /\ exc.line = 27
    /\ i = 3
    /\ Len(geojson[3].geometry.coordinates[1]) = 3

\* C4: a feature whose geometry type is neither Point nor Polygon makes the
\* run fail with an exception that names the type, and that exception is not
\* one of those raised for malformed Point and Polygon features.
C4_UnsupportedGeometry ==
    /\ (pc # "parse" /\ HasOffending /\ Unsupported(geojson[FirstOffending])) =>
          /\ pc = "failed"
          /\ exc.type = "Exception"
          /\ exc.type \notin SchemaErrors
          /\ exc.arg[Len(exc.arg)] = geojson[FirstOffending].geometry.type
          /\ i = FirstOffending
    /\ (pc = "failed" /\ exc.type = "Exception") => Unsupported(geojson[i])

\* a LineString after an accepted feature has ended the run
C4_Witness ==
    /\ pc = "failed"
    /\ i = 2
    /\ geojson[2].geometry.type = "LineString"
    /\ exc.arg = <<"Unexpected geometry type: ", "LineString">>

\* the lines printed after the point lines
PolygonLines == SubSeq(stdout, Len(InputPoints) + 1, Len(stdout))

\* the kinds of the lines of the blocks of the polygons from the n-th on:
\* per polygon one opening line, one vertex line for each ring coordinate
\* but the last, one closing line
RECURSIVE BlockKindsFrom(_)
BlockKindsFrom(n) ==
    IF n > Len(InputPolygons) THEN << >>
    ELSE LET K == Len(InputPolygons[n].geometry.coordinates[1]) - 1
         IN  <<"open">> \o [k \in 1..K |-> "vertex"] \o <<"close">>
             \o BlockKindsFrom(n + 1)

\* the first line of the block of the n-th polygon within PolygonLines
RECURSIVE BlockStart(_)
BlockStart(n) ==
    IF n = 1 THEN 1
    ELSE BlockStart(n - 1) + Len(InputPolygons[n - 1].geometry.coordinates[1]) + 1

\* C5: a polygon whose ring has K + 1 coordinates (K >= 3, first equal to
\* last) is printed as one block of one opening line, exactly K vertex lines
\* and one closing line, and the K vertices are the first K ring coordinates.
C5_VertexCount ==
    pc = "done" =>
        LET B == PolygonLines
        IN  /\ [k \in 1..Len(B) |-> B[k].kind] = BlockKindsFrom(1)
            /\ \A n \in 1..Len(InputPolygons) :
                  LET r == InputPolygons[n].geometry.coordinates[1]
                  IN  \A k \in 1..(Len(r) - 1) :
                         B[BlockStart(n) + k]
                           = VertexLine(Apply(x_scale, x_shift, r[k][1]),
                                        Apply(y_scale, y_shift, r[k][2]))

\* a triangle and a square have both been printed
C5_Witness ==
    /\ pc = "done"
    /\ \E m, n \in 1..Len(InputPolygons) :
          /\ Len(InputPolygons[m].geometry.coordinates[1]) = 4
          /\ Len(InputPolygons[n].geometry.coordinates[1]) = 5

IsPointLine(line) == line.kind = "point"
IsOpenLine(line) == line.kind = "open"
IsVertexLine(line) == line.kind = "vertex"

\* the vertex lines of stdout from line k up to the next closing line
RECURSIVE VertexRun(_)
VertexRun(k) ==
    IF k > Len(stdout) \/ ~IsVertexLine(stdout[k]) THEN << >>
    ELSE <<stdout[k]>> \o VertexRun(k + 1)

\* the blocks of stdout: for each opening line, in order, the vertex lines
\* that follow it
RECURSIVE BlocksFrom(_)
BlocksFrom(k) ==
    IF k > Len(stdout) THEN << >>
    ELSE IF IsOpenLine(stdout[k]) THEN <<VertexRun(k + 1)>> \o BlocksFrom(k + 1)
    ELSE BlocksFrom(k + 1)

\* C6: an accepted input with N point features and M polygon features prints
\* exactly N point lines and M blocks; the i-th point line carries the label
\* and the transformed coordinates of the i-th Point feature, the j-th block
\* is that of the j-th Polygon feature, and its vertex lines follow the ring.
C6_OrderPreserved ==
    pc = "done" =>
        /\ SelectSeq(stdout, IsPointLine)
             = [k \in 1..Len(InputPoints) |->
                  PointLine(InputPoints[k].properties.name,
                            Apply(x_scale, x_shift, InputPoints[k].geometry.coordinates[1]),
                            Apply(y_scale, y_shift, InputPoints[k].geometry.coordinates[2]))]
        /\ BlocksFrom(1)
             = [n \in 1..Len(InputPolygons) |->
                  [k \in 1..Len(Ring(n)) |->
                     VertexLine(Apply(x_scale, x_shift, Ring(n)[k][1]),
                                Apply(y_scale, y_shift, Ring(n)[k][2]))]]

\* two different points and two different polygons have been printed
C6_Witness ==
    /\ pc = "done"
    /\ Len(InputPoints) = 2 /\ InputPoints[1] # InputPoints[2]
    /\ Len(InputPolygons) = 2 /\ InputPolygons[1] # InputPolygons[2]

\* C7: nothing is printed before every feature has been parsed and the
\* transform has been computed, so a run that ends in a failure (schema
\* error, unsupported geometry type, no point, failure while building the
\* transform) has printed no line, wherever the offending feature stands.
C7_NoPartialOutput ==
    /\ stdout # << >> =>
          /\ Emitting
          /\ Len(points) + Len(polygons) = Len(geojson)
    /\ ~Emitting => stdout = << >>
    /\ pc = "failed" => stdout = << >>

\* the run has failed at the last of three features, after two accepted ones
C7_Witness ==
    /\ pc = "failed"
    /\ Len(geojson) = 3
    /\ i = 3
    /\ Len(points) = 1 /\ Len(polygons) = 1

\* the bounding box of an accepted document with a point is flat on an axis
Degenerate == \E a \in {1, 2} : AxisMin(Positions, a) = AxisMax(Positions, a)

\* C8: when the bounding box is degenerate on an axis the run does not
\* crash; it prints one line per point and one block per polygon and ends
\* successfully.
C8_DegenerateBoxSurvives ==
    (AcceptedInput /\ InputPoints # << >> /\ Degenerate) =>
        /\ pc # "failed"
        /\ pc = "done" =>
              /\ Len(SelectSeq(stdout, IsPointLine)) = Len(InputPoints)
              /\ Len(SelectSeq(stdout, IsOpenLine)) = Len(InputPolygons)

\* C9: the only error of the bounding-box and transform step is the absence
\* of points: without a Point feature the run fails when the box is seeded,
\* polygons or not, and with a Point feature the step raises no error.
C9_OnlyMissingPoints ==
    /\ (AcceptedInput /\ InputPoints = << >> /\ pc \notin {"parse", "seed"}) =>
          pc = "failed" /\ exc.type = "IndexError" /\ exc.line = 34
    /\ (AcceptedInput /\ InputPoints # << >>) =>
          ~(pc = "failed" /\ exc.line \in 34..53)

\* the kinds of line that may follow a line of a kind
MayFollow(kind) ==
    CASE kind = "point"  -> {"point", "open"}
      [] kind = "open"   -> {"vertex"}
      [] kind = "vertex" -> {"vertex", "close"}
      [] kind = "close"  -> {"open"}

\* C10: all point lines come before all polygon blocks however the features
\* are interleaved in the input: after the first opening line no point line
\* is printed, and each opening line is followed by its vertex lines and its
\* closing line before the next opening line.
C10_PointsBeforePolygons ==
    /\ \A k \in 1..Len(stdout) : \A l \in (k + 1)..Len(stdout) :
          IsOpenLine(stdout[k]) => ~IsPointLine(stdout[l])
    /\ stdout # << >> => stdout[1].kind = "point"
    /\ \A k \in 1..(Len(stdout) - 1) : stdout[k + 1].kind \in MayFollow(stdout[k].kind)
    /\ pc = "done" => stdout[Len(stdout)].kind \in {"point", "close"}

\* a finished run whose input has a polygon before a point and a point
\* between two polygons
C10_Witness ==
    /\ pc = "done"
    /\ \E k \in 1..(Len(geojson) - 2) :
          /\ IsPolygon(geojson[k])
          /\ IsPoint(geojson[k + 1])
          /\ IsPolygon(geojson[k + 2])

====
